---- MODULE Spec2Model ----
(***************************************************************************)
(* Board-tracking and position-detection pipeline of the chess companion   *)
(* (src/chess/chess_companion_standalone.py, class                         *)
(* ChessCompanionSimplified): the cached board mask, the position poller,  *)
(* the analysis scheduler, the commentary buffer, the tool calls and the   *)
(* task group of run.                                                      *)
(*                                                                         *)
(* Python strings are modelled as sequences of one-character strings, so   *)
(* that validation and comparison are computed on their characters.        *)
(***************************************************************************)
EXTENDS Integers, Sequences, FiniteSets, TLC

VARIABLES
  current_board,       \* self.current_board: None or a position string
  current_analysis,    \* self.current_analysis: None or the analyzer's result
  analyzing,           \* self.analyzing
  watching_mode,       \* self.watching_mode
  commentary_buffer,   \* self.commentary_buffer
  current_board_mask,  \* self.current_board_mask: None or {bbox, confidence, timestamp}
  shared_cap,          \* self.shared_cap: "none", "open", "unopened" (isOpened() false)
  init_pc,             \* detect_initial_board_mask: "start" before it ran, "done" after
  pending_updates,     \* update_board_mask tasks created by on_scene_change, not yet run
  now,                 \* time.time()
  produced,            \* history: the record built by the last successful update_board_mask
  poll_pc,             \* fast_fen_detection_loop: "loop", "fallback", "sleep2", "sleep5"
  new_fen,             \* the poller's local new_fen of the current iteration
  fast_result,         \* history: what the fast path's detector reported this iteration
  fallback_calls,      \* history: consensus detector calls of the current iteration
  tasks,               \* analyze_new_position tasks created and not yet finished
  last_exit,           \* history: how the last finished analysis left its try block
  tr_pc,               \* _run_transcription_sync: "idle" or "appended" (between 887 and 889)
  finalized,           \* history: every line appended to the buffer, in arrival order
  update_result,       \* history: how the last update_board_mask call ended
  detect_calls,        \* history: piece-detection calls of the current iteration
  iteration,           \* history: how far the current iteration got
  consensus_result,    \* history: what the consensus detector answered this iteration
  tool_pc,             \* handle_tool_call: "idle", "inferring" (945-946), "sending" (1017)
  tool_response,       \* the result handle_tool_call built for analyze_current_position
  api_key,             \* whether ROBOFLOW_API_KEY is set in the environment
  run_state,           \* the instance: "not_constructed" (__init__ raised), "running", "torn_down"
  failed_task,         \* history: the background task that raised last
  capture_calls,       \* history: frames the poller read in this iteration
  crop_bbox,           \* history: the bbox this extraction cropped the frame by
  analyzer_returned,   \* history: the last result the analyzer returned
  pushing,             \* history: the perspective whose narrative is being sent
  last_event,          \* history: the last recognition result handled
  inference,           \* history: how the inference of the tool call went
  commentary_context   \* the list the analyzer in flight was handed

vars == << current_board, current_analysis, analyzing, watching_mode,
           commentary_buffer, current_board_mask, shared_cap, init_pc,
           pending_updates, now, produced, poll_pc, new_fen, fast_result,
           fallback_calls, tasks, last_exit, tr_pc, finalized,
           update_result, detect_calls, iteration, consensus_result,
           tool_pc, tool_response, api_key, run_state, failed_task,
           capture_calls, crop_bbox, analyzer_returned, pushing,
           last_event, inference, commentary_context >>

(***************************************************************************)
(* Bounds of the model.                                                    *)
(***************************************************************************)
MaxLines == 11          \* finalized transcript lines that arrive
MaxTime == 1            \* largest clock value
MaxPending == 1         \* queued mask updates
MaxPieces == 2          \* largest piece count a detector reports
MaxTasks == 2           \* analysis tasks present at a time in SpecScheduler

(***************************************************************************)
(* Program constants.                                                      *)
(***************************************************************************)
BufferCapacity == 10
MinPieces == 2

\* Python's None, for string-valued and for record-valued fields.
None == << "None" >>
NoneRec == [none |-> TRUE]

(***************************************************************************)
(* Position strings.                                                       *)
(***************************************************************************)
RECURSIVE Join(_)
Join(rows) ==
  IF Len(rows) = 0 THEN << >>
  ELSE IF Len(rows) = 1 THEN rows[1]
  ELSE rows[1] \o << "/" >> \o Join(Tail(rows))

R8 == << "8" >>
RowBlackPieces == << "r", "n", "b", "q", "k", "b", "n", "r" >>
RowBlackPawns == << "p", "p", "p", "p", "p", "p", "p", "p" >>
RowWhitePawns == << "P", "P", "P", "P", "P", "P", "P", "P" >>
RowWhitePieces == << "R", "N", "B", "Q", "K", "B", "N", "R" >>

EMPTY_BOARD_FEN == Join(<< R8, R8, R8, R8, R8, R8, R8, R8 >>)
FenStart == Join(<< RowBlackPieces, RowBlackPawns, R8, R8, R8, R8,
                    RowWhitePawns, RowWhitePieces >>)
FenE4 == Join(<< RowBlackPieces, RowBlackPawns, R8, R8,
                 << "4", "P", "3" >>, R8,
                 << "P", "P", "P", "P", "1", "P", "P", "P" >>, RowWhitePieces >>)
\* a malformed string a detector may hand back: its fifth row has nine squares
FenLongRow == Join(<< RowBlackPieces, RowBlackPawns, R8, R8,
                      << "4", "P", "4" >>, R8, RowWhitePawns, RowWhitePieces >>)
EmptyString == << >>
\* a truthy value that is no string, as a detector's result may hold one:
\* chess.Board raises AttributeError on it, which is_valid_fen does not catch
NotAString == << "[", "]" >>

ValidFens == { FenStart, FenE4 }
\* the strings the detectors hand to the poller
FenStrings == ValidFens \cup { FenLongRow, EmptyString, EMPTY_BOARD_FEN }

Digits == { "1", "2", "3", "4", "5", "6", "7", "8" }
PIECE_SYMBOLS == { "p", "n", "b", "r", "q", "k", "P", "N", "B", "R", "Q", "K" }
DigitValue(c) ==
  CASE c = "1" -> 1 [] c = "2" -> 2 [] c = "3" -> 3 [] c = "4" -> 4
    [] c = "5" -> 5 [] c = "6" -> 6 [] c = "7" -> 7 [] c = "8" -> 8

\* str.split("/")
RECURSIVE SplitRows(_, _)
SplitRows(s, cur) ==
  IF Len(s) = 0 THEN << cur >>
  ELSE IF Head(s) = "/" THEN << cur >> \o SplitRows(Tail(s), << >>)
  ELSE SplitRows(Tail(s), Append(cur, Head(s)))

\* the per-row scan of chess.Board's position parser: the number of squares a
\* row describes, or -1 for a character that is no piece and no digit or for
\* two digits in a row
RECURSIVE RowSum(_, _)
RowSum(row, prevDigit) ==
  IF Len(row) = 0 THEN 0
  ELSE LET c == Head(row) IN
       IF c \in Digits THEN
         IF prevDigit THEN -1
         ELSE LET rest == RowSum(Tail(row), TRUE) IN
              IF rest < 0 THEN -1 ELSE DigitValue(c) + rest
       ELSE IF c \in PIECE_SYMBOLS THEN
         LET rest == RowSum(Tail(row), FALSE) IN
         IF rest < 0 THEN -1 ELSE 1 + rest
       ELSE -1

is_valid_fen(fen) ==
  /\ Len(fen) > 0
  /\ LET rows == SplitRows(fen, << >>) IN
     /\ Len(rows) = 8
     /\ \A i \in 1..Len(rows) : RowSum(rows[i], FALSE) = 8

\* Python truthiness of an optional string: None and "" are falsy
Truthy(s) == s # None /\ Len(s) > 0

(***************************************************************************)
(* Construction and the task group of run.                                 *)
(***************************************************************************)
\* __init__ without the check of lines 339-341
construct_unchecked(key) == "running"

\* __init__, lines 339-341: without the key the constructor raises ValueError
\* and there is no instance whose run could start a task
construct(key) == IF key THEN "running" ELSE "not_constructed"

(***************************************************************************)
(* Board mask cache.                                                       *)
(***************************************************************************)
\* bounding boxes the segmentation may report, (x_min, y_min, x_max, y_max);
\* the second one has no width
Boxes == { << 1, 1, 3, 3 >>, << 2, 1, 2, 3 >> }
Confidences == { 1 }

\* what one run of update_board_mask meets: the capture failing, an exception
\* anywhere in the try block, a segmentation without predictions, predictions
\* without a bounding box, or a bounding box
UpdateOutcomes ==
  { [kind |-> k, coords |-> << >>, confidence |-> 0] :
      k \in { "capture_failed", "exception", "no_predictions", "no_bbox" } }
  \cup { [kind |-> "bbox", coords |-> b, confidence |-> c] : b \in Boxes, c \in Confidences }

MaskRecord(o, start_time) ==
  [bbox |-> o.coords, confidence |-> o.confidence, timestamp |-> start_time]

\* history: the bounding box, confidence and start time of the last update call
\* that found a bounding box
Produced(o, t, old) ==
  IF o.kind = "bbox"
  THEN [bbox |-> o.coords, confidence |-> o.confidence, timestamp |-> t]
  ELSE old

\* history: whether an update call that met o found a bounding box
UpdateResult(o) == IF o.kind = "bbox" THEN "updated" ELSE "failed"

\* update_board_mask with a plausible slip: a cached mask gets the new bounding
\* box but keeps its confidence and timestamp
update_board_mask_partial(mask, o, start_time) ==
  CASE o.kind = "capture_failed" -> mask
    [] o.kind = "exception" -> NoneRec
    [] o.kind = "no_predictions" -> NoneRec
    [] o.kind = "no_bbox" -> NoneRec
    [] o.kind = "bbox" ->
         IF mask = NoneRec THEN MaskRecord(o, start_time)
         ELSE [mask EXCEPT !.bbox = o.coords]

\* the value of self.current_board_mask after update_board_mask
update_board_mask(mask, o, start_time) ==
  CASE o.kind = "capture_failed" -> mask
    [] o.kind = "exception" -> NoneRec
    [] o.kind = "no_predictions" -> NoneRec
    [] o.kind = "no_bbox" -> NoneRec
    [] o.kind = "bbox" -> MaskRecord(o, start_time)

\* detect_initial_board_mask: opens the capture device and seeds the mask
DetectInitial ==
  /\ run_state = "running"
  /\ init_pc = "start"
  /\ init_pc' = "done"
  /\ \E opened \in BOOLEAN, ret \in BOOLEAN, o \in UpdateOutcomes :
       IF ~opened
       THEN /\ shared_cap' = "unopened"
            /\ UNCHANGED << current_board_mask, produced, update_result >>
       ELSE /\ shared_cap' = "open"
            /\ IF ret
               THEN /\ current_board_mask' = update_board_mask(current_board_mask, o, now)
                    /\ produced' = Produced(o, now, produced)
                    /\ update_result' = UpdateResult(o)
               ELSE UNCHANGED << current_board_mask, produced, update_result >>
  /\ UNCHANGED << current_board, current_analysis, analyzing, watching_mode,
                  commentary_buffer, pending_updates, now, poll_pc, new_fen,
                  fast_result, fallback_calls, tasks, last_exit, tr_pc, finalized,
                  detect_calls, iteration, consensus_result, tool_pc,
                  tool_response, api_key, run_state, failed_task, capture_calls,
                  crop_bbox, analyzer_returned, pushing, last_event, inference,
                  commentary_context >>

\* start_scene_detection.on_scene_change: queues an update_board_mask task;
\* the detector only runs when the capture device is open
OnSceneChange ==
  /\ run_state = "running"
  /\ init_pc = "done"
  /\ shared_cap = "open"
  /\ pending_updates < MaxPending
  /\ pending_updates' = pending_updates + 1
  /\ UNCHANGED << current_board, current_analysis, analyzing, watching_mode,
                  commentary_buffer, current_board_mask, shared_cap, init_pc, now,
                  produced, poll_pc, new_fen, fast_result, fallback_calls, tasks,
                  last_exit, tr_pc, finalized, update_result, detect_calls,
                  iteration, consensus_result, tool_pc, tool_response, api_key,
                  run_state, failed_task, capture_calls, crop_bbox,
                  analyzer_returned, pushing, last_event, inference,
                  commentary_context >>

\* a queued update_board_mask task runs (it has no await inside)
UpdateBoardMask ==
  /\ run_state = "running"
  /\ pending_updates > 0
  /\ pending_updates' = pending_updates - 1
  /\ \E o \in UpdateOutcomes :
       /\ current_board_mask' = update_board_mask(current_board_mask, o, now)
       /\ produced' = Produced(o, now, produced)
       /\ update_result' = UpdateResult(o)
  /\ UNCHANGED << current_board, current_analysis, analyzing, watching_mode,
                  commentary_buffer, shared_cap, init_pc, now, poll_pc, new_fen,
                  fast_result, fallback_calls, tasks, last_exit, tr_pc, finalized,
                  detect_calls, iteration, consensus_result, tool_pc,
                  tool_response, api_key, run_state, failed_task, capture_calls,
                  crop_bbox, analyzer_returned, pushing, last_event, inference,
                  commentary_context >>

\* time passes
Tick ==
  /\ now < MaxTime
  /\ now' = now + 1
  /\ UNCHANGED << current_board, current_analysis, analyzing, watching_mode,
                  commentary_buffer, current_board_mask, shared_cap, init_pc,
                  pending_updates, produced, poll_pc, new_fen, fast_result,
                  fallback_calls, tasks, last_exit, tr_pc, finalized,
                  update_result, detect_calls, iteration, consensus_result,
                  tool_pc, tool_response, api_key, run_state, failed_task,
                  capture_calls, crop_bbox, analyzer_returned, pushing, last_event,
                  inference, commentary_context >>

(***************************************************************************)
(* Position extraction.                                                    *)
(***************************************************************************)
\* what the fast path meets: an exception before the piece detector is called,
\* a piece detector that raises or returns nothing, a conversion that raises on
\* enough predictions, or predictions (their number and the position string
\* pieces_to_fen_from_dimensions converts them to)
FastOutcomes ==
  { [kind |-> k, count |-> 0, fen |-> None] :
      k \in { "exception", "detect_raised", "no_result" } }
  \cup { [kind |-> "convert_raised", count |-> MinPieces, fen |-> None] }
  \cup { [kind |-> "pieces", count |-> c, fen |-> f] : c \in 0..MaxPieces, f \in FenStrings }

\* what the consensus detector answers: an exception, or a piece count and a
\* consensus position (None when the passes did not agree)
ConsensusOutcomes ==
  { [kind |-> "exception", count |-> 0, fen |-> None] }
  \cup { [kind |-> "result", count |-> c, fen |-> f] :
           c \in 0..MaxPieces, f \in FenStrings \cup { None, NotAString } }

CropWidth(bbox) == bbox[3] - bbox[1]
CropHeight(bbox) == bbox[4] - bbox[2]

\* extract_fen_with_cached_mask giving up when there is no mask
extract_gives_up_without_mask(mask, f) ==
  IF mask = NoneRec \/ "bbox" \notin DOMAIN mask
  THEN [fallback |-> FALSE, fen |-> None, detect |-> 0]
  ELSE IF f.kind = "exception"
  THEN [fallback |-> TRUE, fen |-> None, detect |-> 0]
  ELSE IF CropWidth(mask.bbox) = 0 \/ CropHeight(mask.bbox) = 0
  THEN [fallback |-> TRUE, fen |-> None, detect |-> 0]
  ELSE IF f.kind \in { "detect_raised", "no_result" }
  THEN [fallback |-> TRUE, fen |-> None, detect |-> 1]
  ELSE IF f.count < MinPieces
  THEN [fallback |-> FALSE, fen |-> None, detect |-> 1]
  ELSE IF f.kind = "convert_raised"
  THEN [fallback |-> TRUE, fen |-> None, detect |-> 1]
  ELSE IF f.fen = EMPTY_BOARD_FEN
  THEN [fallback |-> FALSE, fen |-> None, detect |-> 1]
  ELSE [fallback |-> FALSE, fen |-> f.fen, detect |-> 1]

\* extract_fen_with_cached_mask ignoring the cached mask: every extraction is
\* handed to the consensus detector
extract_consensus_only(mask, f) ==
  [fallback |-> TRUE, fen |-> None, detect |-> 0]

\* extract_fen_with_cached_mask without the floor on the piece count
extract_without_piece_floor(mask, f) ==
  IF mask = NoneRec \/ "bbox" \notin DOMAIN mask
  THEN [fallback |-> TRUE, fen |-> None, detect |-> 0]
  ELSE IF f.kind = "exception"
  THEN [fallback |-> TRUE, fen |-> None, detect |-> 0]
  ELSE IF CropWidth(mask.bbox) = 0 \/ CropHeight(mask.bbox) = 0
  THEN [fallback |-> TRUE, fen |-> None, detect |-> 0]
  ELSE IF f.kind \in { "detect_raised", "no_result", "convert_raised" }
  THEN [fallback |-> TRUE, fen |-> None, detect |-> 1]
  ELSE IF f.fen = EMPTY_BOARD_FEN
  THEN [fallback |-> FALSE, fen |-> None, detect |-> 1]
  ELSE [fallback |-> FALSE, fen |-> f.fen, detect |-> 1]

\* extract_fen_with_cached_mask returning None, without the consensus detector,
\* when the fast path does not come to a detection result
extract_gives_up_on_failure(mask, f) ==
  IF mask = NoneRec \/ "bbox" \notin DOMAIN mask
  THEN [fallback |-> TRUE, fen |-> None, detect |-> 0]
  ELSE IF f.kind = "exception"
  THEN [fallback |-> FALSE, fen |-> None, detect |-> 0]
  ELSE IF CropWidth(mask.bbox) = 0 \/ CropHeight(mask.bbox) = 0
  THEN [fallback |-> FALSE, fen |-> None, detect |-> 0]
  ELSE IF f.kind \in { "detect_raised", "no_result" }
  THEN [fallback |-> FALSE, fen |-> None, detect |-> 1]
  ELSE IF f.count < MinPieces
  THEN [fallback |-> FALSE, fen |-> None, detect |-> 1]
  ELSE IF f.kind = "convert_raised"
  THEN [fallback |-> FALSE, fen |-> None, detect |-> 1]
  ELSE IF f.fen = EMPTY_BOARD_FEN
  THEN [fallback |-> FALSE, fen |-> None, detect |-> 1]
  ELSE [fallback |-> FALSE, fen |-> f.fen, detect |-> 1]

\* extract_fen_with_cached_mask handing every frame to the consensus detector
\* as well, whatever the fast path found
extract_always_confirms(mask, f) ==
  IF mask = NoneRec \/ "bbox" \notin DOMAIN mask
  THEN [fallback |-> TRUE, fen |-> None, detect |-> 0]
  ELSE IF f.kind = "exception"
  THEN [fallback |-> TRUE, fen |-> None, detect |-> 0]
  ELSE IF CropWidth(mask.bbox) = 0 \/ CropHeight(mask.bbox) = 0
  THEN [fallback |-> TRUE, fen |-> None, detect |-> 0]
  ELSE [fallback |-> TRUE, fen |-> None, detect |-> 1]

\* extract_fen_with_cached_mask asking the piece detector a second time when it
\* returned nothing
extract_retries_detection(mask, f) ==
  IF mask = NoneRec \/ "bbox" \notin DOMAIN mask
  THEN [fallback |-> TRUE, fen |-> None, detect |-> 0]
  ELSE IF f.kind = "exception"
  THEN [fallback |-> TRUE, fen |-> None, detect |-> 0]
  ELSE IF CropWidth(mask.bbox) = 0 \/ CropHeight(mask.bbox) = 0
  THEN [fallback |-> TRUE, fen |-> None, detect |-> 0]
  ELSE IF f.kind = "no_result"
  THEN [fallback |-> TRUE, fen |-> None, detect |-> 2]
  ELSE IF f.kind = "detect_raised"
  THEN [fallback |-> TRUE, fen |-> None, detect |-> 1]
  ELSE IF f.count < MinPieces
  THEN [fallback |-> FALSE, fen |-> None, detect |-> 1]
  ELSE IF f.kind = "convert_raised"
  THEN [fallback |-> TRUE, fen |-> None, detect |-> 1]
  ELSE IF f.fen = EMPTY_BOARD_FEN
  THEN [fallback |-> FALSE, fen |-> None, detect |-> 1]
  ELSE [fallback |-> FALSE, fen |-> f.fen, detect |-> 1]

\* extract_fen_with_cached_mask up to its return or its call of
\* _fallback_full_detection: fallback tells which, fen is the value returned
\* without fallback, detect the number of piece-detection calls issued
extract_fen_with_cached_mask(mask, f) ==
  IF mask = NoneRec \/ "bbox" \notin DOMAIN mask
  THEN [fallback |-> TRUE, fen |-> None, detect |-> 0]
  ELSE IF f.kind = "exception"
  THEN [fallback |-> TRUE, fen |-> None, detect |-> 0]
  ELSE IF CropWidth(mask.bbox) = 0 \/ CropHeight(mask.bbox) = 0
  THEN [fallback |-> TRUE, fen |-> None, detect |-> 0]
  ELSE IF f.kind \in { "detect_raised", "no_result" }
  THEN [fallback |-> TRUE, fen |-> None, detect |-> 1]
  ELSE IF f.count < MinPieces
  THEN [fallback |-> FALSE, fen |-> None, detect |-> 1]
  ELSE IF f.kind = "convert_raised"
  THEN [fallback |-> TRUE, fen |-> None, detect |-> 1]
  ELSE IF f.fen = EMPTY_BOARD_FEN
  THEN [fallback |-> FALSE, fen |-> None, detect |-> 1]
  ELSE [fallback |-> FALSE, fen |-> f.fen, detect |-> 1]

\* history: what the piece detector of the fast path reported in an extraction
\* that met f with the mask given
FastSeen(mask, f) ==
  IF mask = NoneRec THEN "no_mask"
  ELSE IF f.kind = "exception" THEN "raised"
  ELSE IF mask.bbox[3] = mask.bbox[1] \/ mask.bbox[4] = mask.bbox[2] THEN "empty_crop"
  ELSE IF f.kind = "detect_raised" THEN "raised"
  ELSE IF f.kind = "no_result" THEN "no_result"
  ELSE IF f.count < 2 THEN "few_pieces"
  ELSE IF f.kind = "convert_raised" THEN "raised"
  ELSE IF f.fen = EMPTY_BOARD_FEN THEN "empty_board"
  ELSE "position"

\* history: what the consensus detector answered when it met r
ConsensusSeen(r) ==
  IF r.kind = "exception" THEN "raised"
  ELSE IF r.count < 2 THEN "few_pieces"
  ELSE IF r.fen = EMPTY_BOARD_FEN THEN "empty_board"
  ELSE "position"

\* _fallback_full_detection without the floor on the piece count
fallback_without_piece_floor(r) ==
  IF r.kind = "exception" THEN None
  ELSE IF r.fen = EMPTY_BOARD_FEN THEN None
  ELSE r.fen

\* the value _fallback_full_detection returns
fallback_full_detection(r) ==
  IF r.kind = "exception" THEN None
  ELSE IF r.count < MinPieces THEN None
  ELSE IF r.fen = EMPTY_BOARD_FEN THEN None
  ELSE r.fen

(***************************************************************************)
(* Position poller and analysis scheduler.                                 *)
(***************************************************************************)
\* on_board_change with the test of line 689 inverted
on_board_change_inverted(ts, busy, fen) ==
  IF busy THEN Append(ts, [pc |-> "created", fen |-> fen]) ELSE ts

\* on_board_change without the test of line 689
on_board_change_unguarded(ts, busy, fen) ==
  Append(ts, [pc |-> "created", fen |-> fen])

\* on_board_change, line 689: the tasks after a change to fen
on_board_change_tasks(ts, busy, fen) ==
  IF ~busy THEN Append(ts, [pc |-> "created", fen |-> fen]) ELSE ts

\* line 510 without the call of is_valid_fen
Accepted_unvalidated(fen) == Truthy(fen)

\* fast_fen_detection_loop, line 510: the extracted string is accepted
Accepted(fen) == Truthy(fen) /\ is_valid_fen(fen)

\* on_board_change clearing the buffer on every change
buffer_cleared_on_change(buf) == << >>

\* on_board_change, lines 684-686: the commentary buffer after a change (it is
\* not touched)
buffer_on_change(buf) == buf

\* chess.Board raises an exception that is_valid_fen lets through
validation_raises(fen) == fen = NotAString

\* the handler of lines 522-525 re-raising instead of sleeping
on_iteration_error_fatal == "crashed"

\* fast_fen_detection_loop, lines 522-525: where the loop is after an
\* exception in an iteration
on_iteration_error == "sleep5"

\* fast_fen_detection_loop, lines 510-525: the rest of an iteration once the
\* extraction returned fen
FinishIteration(fen) ==
  /\ new_fen' = fen
  /\ IF Truthy(fen) /\ validation_raises(fen)
     THEN /\ poll_pc' = on_iteration_error
          /\ iteration' = "raised"
          /\ UNCHANGED << current_board, commentary_buffer, tasks >>
     ELSE /\ poll_pc' = "sleep5"
          /\ iteration' = "extracted"
          /\ IF Accepted(fen) /\ fen # current_board
             THEN /\ current_board' = fen
                  /\ commentary_buffer' = buffer_on_change(commentary_buffer)
                  /\ tasks' = on_board_change_tasks(tasks, analyzing, fen)
             ELSE UNCHANGED << current_board, commentary_buffer, tasks >>

\* history value: no crop was taken
NoBox == << >>

\* the fast path cropping the part of the frame the first mask ever covered
crop_by_default_box(mask) == << 1, 1, 3, 3 >>

\* the bbox the fast path crops by: the cached mask's, read in the same
\* uninterrupted stretch as the test that found the mask there
crop_bbox_of(mask) == mask.bbox

\* extract_fen_with_cached_mask is called on a frame: lines 578-642, up to its
\* return and the rest of the iteration, or up to the consensus detector's call
Extract(f) ==
  LET x == extract_fen_with_cached_mask(current_board_mask, f) IN
  /\ fast_result' = FastSeen(current_board_mask, f)
  /\ crop_bbox' = IF current_board_mask = NoneRec \/ f.kind = "exception"
                  THEN NoBox
                  ELSE crop_bbox_of(current_board_mask)
  /\ detect_calls' = detect_calls + x.detect
  /\ IF x.fallback
     THEN /\ poll_pc' = "fallback"
          /\ fallback_calls' = fallback_calls + 1
          /\ iteration' = "extracting"
          /\ UNCHANGED << current_board, commentary_buffer, new_fen, tasks >>
     ELSE /\ FinishIteration(x.fen)
          /\ UNCHANGED fallback_calls

\* the loop going on to read a frame whether or not there is a mask
mask_test_skipped(mask) == FALSE

\* the test at the top of an iteration: is there no board mask to work with
mask_missing(mask) == mask = NoneRec

\* one iteration of fast_fen_detection_loop from the top of the loop to its
\* first await: the sleep, or the consensus detector's call
PollIteration ==
  /\ run_state = "running"
  /\ init_pc = "done"
  /\ poll_pc = "loop"
  /\ IF mask_missing(current_board_mask)
     THEN /\ poll_pc' = "sleep2"
          /\ iteration' = "no_mask"
          /\ UNCHANGED << current_board, commentary_buffer, new_fen, fast_result,
                          detect_calls, fallback_calls, tasks, capture_calls,
                          crop_bbox >>
     ELSE /\ capture_calls' = capture_calls + 1
          /\ \E cap \in { "ok", "failed", "exception" } :
               CASE cap = "failed" ->
                      /\ poll_pc' = "sleep2"
                      /\ iteration' = "capture_failed"
                      /\ UNCHANGED << current_board, commentary_buffer, new_fen,
                                      fast_result, detect_calls, fallback_calls,
                                      tasks, crop_bbox >>
                 [] cap = "exception" ->
                      /\ poll_pc' = on_iteration_error
                      /\ iteration' = "raised"
                      /\ UNCHANGED << current_board, commentary_buffer, new_fen,
                                      fast_result, detect_calls, fallback_calls,
                                      tasks, crop_bbox >>
                 [] cap = "ok" -> \E f \in FastOutcomes : Extract(f)
  /\ UNCHANGED << current_analysis, analyzing, watching_mode, current_board_mask,
                  shared_cap, init_pc, pending_updates, now, produced, last_exit,
                  tr_pc, finalized, update_result, consensus_result, tool_pc,
                  tool_response, api_key, run_state, failed_task,
                  analyzer_returned, pushing, last_event, inference,
                  commentary_context >>

\* extract_fen_with_cached_mask called on a frame whatever the mask is (the
\* poller itself calls it behind the test of line 494)
ExtractCall ==
  /\ run_state = "running"
  /\ poll_pc = "loop"
  /\ \E f \in FastOutcomes : Extract(f)
  /\ UNCHANGED << current_analysis, analyzing, watching_mode, current_board_mask,
                  shared_cap, init_pc, pending_updates, now, produced, last_exit,
                  tr_pc, finalized, update_result, consensus_result, tool_pc,
                  tool_response, api_key, run_state, failed_task, capture_calls,
                  analyzer_returned, pushing, last_event, inference,
                  commentary_context >>

\* the consensus detector answers and the iteration goes on to its sleep
FallbackReturn ==
  /\ run_state = "running"
  /\ poll_pc = "fallback"
  /\ \E r \in ConsensusOutcomes :
       /\ consensus_result' = ConsensusSeen(r)
       /\ FinishIteration(fallback_full_detection(r))
  /\ UNCHANGED << current_analysis, analyzing, watching_mode, current_board_mask,
                  shared_cap, init_pc, pending_updates, now, produced, fast_result,
                  fallback_calls, last_exit, tr_pc, finalized, update_result,
                  detect_calls, tool_pc, tool_response, api_key, run_state,
                  failed_task, capture_calls, crop_bbox, analyzer_returned,
                  pushing, last_event, inference, commentary_context >>

\* the sleep ends and the next iteration starts. A task created by
\* on_board_change is run by the event loop before the sleep's timer fires
\* (the ready queue is first in, first out).
PollerWake ==
  /\ run_state = "running"
  /\ poll_pc \in { "sleep2", "sleep5" }
  /\ \A i \in 1..Len(tasks) : tasks[i].pc # "created"
  /\ poll_pc' = "loop"
  /\ new_fen' = None
  /\ fast_result' = "none"
  /\ detect_calls' = 0
  /\ fallback_calls' = 0
  /\ iteration' = "none"
  /\ consensus_result' = "none"
  /\ capture_calls' = 0
  /\ crop_bbox' = NoBox
  /\ UNCHANGED << current_board, current_analysis, analyzing, watching_mode,
                  commentary_buffer, current_board_mask, shared_cap, init_pc,
                  pending_updates, now, produced, tasks, last_exit, tr_pc,
                  finalized, update_result, tool_pc, tool_response, api_key,
                  run_state, failed_task, analyzer_returned, pushing, last_event,
                  inference, commentary_context >>

Remove(seq, i) == SubSeq(seq, 1, i - 1) \o SubSeq(seq, i + 1, Len(seq))

\* perspectives the analyzer's result may hold
ResultShapes == { { "white", "black" }, { "white" }, { "black" } }

\* what analyze_both_perspectives does: raise, or return a result (stored with
\* the position it is about and the set of its entries that carry a user query)
AnalyzerOutcomes ==
  { [kind |-> "exception", perspectives |-> { }] }
  \cup { [kind |-> "result", perspectives |-> p] : p \in ResultShapes }

\* analyze_new_position, line 694: the call returns at once
busy_check(busy) == busy

\* line 697 missing: the flag is never raised
flag_never_set == FALSE

\* analyze_new_position, line 697
flag_on_start == TRUE

\* the flag cleared at the end of the try block instead of in a finally clause
flag_cleared_on_success_only(how) == how \in { "analyzer_raised", "no_white" }

\* analyze_new_position, lines 716-720: the flag after the try block was left
\* the way named by how (the finally clause runs on every path)
flag_on_exit(how) == FALSE

\* the new result merged into the stored one: entries of the earlier result
\* that the new one lacks are kept
stored_analysis_merged(previous, analyses) ==
  IF previous = NoneRec
  THEN analyses
  ELSE [analyses EXCEPT !.perspectives = @ \cup previous.perspectives]

\* analyze_new_position, line 709: the value of current_analysis after the
\* analyzer returned analyses
stored_analysis(previous, analyses) == analyses

\* the narrative of the side to move last being the one sent
pushed_perspective_black == "black"

\* analyze_new_position, line 714: the entry of the result whose narrative is
\* handed to send_analysis_to_gemini
pushed_perspective == "white"

\* the early return placed inside the try block: its finally clause clears the
\* flag of the analysis in flight
flag_cleared_on_drop(busy) == FALSE

\* analyze_new_position, lines 694-695: the flag after the call returned at
\* once (the return comes before the try block, so line 720 is not run)
flag_on_drop(busy) == busy

\* analyze_new_position is called for a position whatever analyzing is (the
\* pipeline itself calls it behind the test of line 689)
Submit ==
  /\ run_state = "running"
  /\ Len(tasks) < MaxTasks
  /\ \E fen \in ValidFens : tasks' = Append(tasks, [pc |-> "created", fen |-> fen])
  /\ UNCHANGED << current_board, current_analysis, analyzing, watching_mode,
                  commentary_buffer, current_board_mask, shared_cap, init_pc,
                  pending_updates, now, produced, poll_pc, new_fen, fast_result,
                  fallback_calls, last_exit, tr_pc, finalized, update_result,
                  detect_calls, iteration, consensus_result, tool_pc,
                  tool_response, api_key, run_state, failed_task, capture_calls,
                  crop_bbox, analyzer_returned, pushing, last_event, inference,
                  commentary_context >>

\* the analyzer asked about the board as it is when it is called, not about
\* the position the task was created for
analyzed_board_now(fen, board) == board

\* analyze_new_position, lines 702-703: the position the analyzer is asked
\* about, given the task's argument fen and the board at that time
analyzed_position(fen, board) == fen

\* analyze_new_position, line 705: the analyzer is handed the buffer itself,
\* not a copy
context_handed(buf) == [lines |-> buf, alias |-> TRUE]

\* a created task gets its first turn: lines 694-702, up to the await of the
\* analyzer
AnalyzeStart(i) ==
  /\ run_state = "running"
  /\ tasks[i].pc = "created"
  /\ IF busy_check(analyzing)
     THEN /\ tasks' = Remove(tasks, i)
          /\ analyzing' = flag_on_drop(analyzing)
          /\ last_exit' = "dropped"
          /\ UNCHANGED commentary_context
     ELSE /\ analyzing' = flag_on_start
          /\ tasks' = [tasks EXCEPT ![i].pc = "analyzing"]
          /\ commentary_context' = context_handed(commentary_buffer)
          /\ UNCHANGED last_exit
  /\ UNCHANGED << current_board, current_analysis, watching_mode,
                  commentary_buffer, current_board_mask, shared_cap, init_pc,
                  pending_updates, now, produced, poll_pc, new_fen, fast_result,
                  fallback_calls, tr_pc, finalized, update_result,
                  detect_calls, iteration, consensus_result, tool_pc,
                  tool_response, api_key, run_state, failed_task, capture_calls,
                  crop_bbox, analyzer_returned, pushing, last_event, inference >>

\* the task leaves its try block the way named by how: lines 716-720
Exit(i, how) ==
  /\ last_exit' = how
  /\ analyzing' = flag_on_exit(how)
  /\ tasks' = Remove(tasks, i)

\* the analyzer returns or raises: lines 702-720, up to the await of
\* send_analysis_to_gemini when watching
AnalyzeReturn(i) ==
  /\ run_state = "running"
  /\ tasks[i].pc = "analyzing"
  /\ commentary_context' = NoneRec
  /\ \E a \in AnalyzerOutcomes :
       IF a.kind = "exception"
       THEN /\ Exit(i, "analyzer_raised")
            /\ UNCHANGED << current_analysis, analyzer_returned, pushing >>
       ELSE /\ analyzer_returned' =
                 [fen |-> tasks[i].fen, perspectives |-> a.perspectives]
            /\ current_analysis' =
                 stored_analysis(current_analysis,
                                 [fen |-> analyzed_position(tasks[i].fen, current_board),
                                  perspectives |-> a.perspectives,
                                  queried |-> { }])
            /\ IF ~watching_mode
               THEN Exit(i, "stored") /\ UNCHANGED pushing
               ELSE IF pushed_perspective \notin a.perspectives
               THEN Exit(i, "no_white") /\ UNCHANGED pushing
               ELSE /\ tasks' = [tasks EXCEPT ![i].pc = "sending"]
                    /\ pushing' = pushed_perspective
                    /\ UNCHANGED << analyzing, last_exit >>
  /\ UNCHANGED << current_board, watching_mode, commentary_buffer,
                  current_board_mask, shared_cap, init_pc, pending_updates, now,
                  produced, poll_pc, new_fen, fast_result, fallback_calls, tr_pc,
                  finalized, update_result, detect_calls, iteration,
                  consensus_result, tool_pc, tool_response, api_key, run_state,
                  failed_task, capture_calls, crop_bbox, last_event, inference >>

\* send_analysis_to_gemini returns; it catches its own failures (lines 752-753)
SendReturn(i) ==
  /\ run_state = "running"
  /\ tasks[i].pc = "sending"
  /\ \E ok \in BOOLEAN : Exit(i, IF ok THEN "sent" ELSE "send_failed")
  /\ pushing' = "none"
  /\ UNCHANGED << current_board, current_analysis, watching_mode,
                  commentary_buffer, current_board_mask, shared_cap, init_pc,
                  pending_updates, now, produced, poll_pc, new_fen, fast_result,
                  fallback_calls, tr_pc, finalized, update_result, detect_calls,
                  iteration, consensus_result, tool_pc, tool_response, api_key,
                  run_state, failed_task, capture_calls, crop_bbox,
                  analyzer_returned, last_event, inference, commentary_context >>

\* handle_tool_call: start_watching_mode and stop_watching_mode
ToolWatchingMode ==
  /\ run_state = "running"
  /\ tool_pc = "idle"
  /\ \E b \in BOOLEAN : watching_mode' = b
  /\ UNCHANGED << current_board, current_analysis, analyzing, commentary_buffer,
                  current_board_mask, shared_cap, init_pc, pending_updates, now,
                  produced, poll_pc, new_fen, fast_result, fallback_calls, tasks,
                  last_exit, tr_pc, finalized, update_result, detect_calls,
                  iteration, consensus_result, tool_pc, tool_response, api_key,
                  run_state, failed_task, capture_calls, crop_bbox,
                  analyzer_returned, pushing, last_event, inference,
                  commentary_context >>

NoResponse == [status |-> "none", perspective |-> "none", served |-> "none"]

\* line 951: the entry served for color, "none" when neither it nor the white
\* entry is there
served_entry(analysis, color) ==
  IF color \in analysis.perspectives THEN color
  ELSE IF "white" \in analysis.perspectives THEN "white"
  ELSE "none"

\* lines 957-959 without the copy: the query is written to the stored entry
annotate_in_place(analysis, entry) ==
  [analysis EXCEPT !.queried = @ \cup { entry }]

\* lines 957-959: the stored analysis after the query and the narrative were
\* attached to the copy of its entry
annotate_copy(analysis, entry) == analysis

\* the side the question is usually about being taken when nothing is known
perspective_on_failure_black == "black"

\* handle_tool_call, lines 947-950: the perspective when no frame was read or
\* the inference raised
perspective_on_failure == "white"

\* handle_tool_call, lines 951-975: the result for the perspective color
ToolResult(color) ==
  LET entry == served_entry(current_analysis, color) IN
  IF entry # "none"
  THEN /\ current_analysis' = annotate_copy(current_analysis, entry)
       /\ tool_response' =
            [status |-> "analysis_ready", perspective |-> color, served |-> entry]
  ELSE /\ tool_response' =
            [status |-> "no_analysis", perspective |-> "none", served |-> "none"]
       /\ UNCHANGED current_analysis

\* handle_tool_call for analyze_current_position, lines 931-949: up to the
\* await of the perspective inference, or to the result when there is no
\* analysis or no frame
ToolAnalyzeCall ==
  /\ run_state = "running"
  /\ tool_pc = "idle"
  /\ IF current_analysis = NoneRec
     THEN /\ tool_response' =
               [status |-> "no_analysis", perspective |-> "none", served |-> "none"]
          /\ tool_pc' = "sending"
          /\ UNCHANGED << current_analysis, inference >>
     ELSE \E read \in { "frame", "no_frame", "raised" } :
            IF read = "frame"
            THEN /\ shared_cap = "open"
                 /\ tool_pc' = "inferring"
                 /\ UNCHANGED << current_analysis, tool_response, inference >>
            ELSE /\ inference' = IF read = "no_frame" THEN "no_frame" ELSE "read_raised"
                 /\ ToolResult(perspective_on_failure)
                 /\ tool_pc' = "sending"
  /\ UNCHANGED << current_board, analyzing, watching_mode, commentary_buffer,
                  current_board_mask, shared_cap, init_pc, pending_updates, now,
                  produced, poll_pc, new_fen, fast_result, fallback_calls, tasks,
                  last_exit, tr_pc, finalized, update_result, detect_calls,
                  iteration, consensus_result, api_key, run_state, failed_task,
                  capture_calls, crop_bbox, analyzer_returned, pushing, last_event,
                  commentary_context >>

\* the perspective inference returns or raises: lines 945-975
ToolAnalyzeInferred ==
  /\ run_state = "running"
  /\ tool_pc = "inferring"
  /\ \E inferred \in { "white", "black", "raised" } :
       /\ inference' = inferred
       /\ ToolResult(IF inferred = "raised" THEN perspective_on_failure ELSE inferred)
  /\ tool_pc' = "sending"
  /\ UNCHANGED << current_board, analyzing, watching_mode, commentary_buffer,
                  current_board_mask, shared_cap, init_pc, pending_updates, now,
                  produced, poll_pc, new_fen, fast_result, fallback_calls, tasks,
                  last_exit, tr_pc, finalized, update_result, detect_calls,
                  iteration, consensus_result, api_key, run_state, failed_task,
                  capture_calls, crop_bbox, analyzer_returned, pushing, last_event,
                  commentary_context >>

\* send_tool_response returns: lines 1017-1020
ToolResponseSent ==
  /\ run_state = "running"
  /\ tool_pc = "sending"
  /\ tool_pc' = "idle"
  /\ tool_response' = NoResponse
  /\ inference' = "none"
  /\ UNCHANGED << current_board, current_analysis, analyzing, watching_mode,
                  commentary_buffer, current_board_mask, shared_cap, init_pc,
                  pending_updates, now, produced, poll_pc, new_fen, fast_result,
                  fallback_calls, tasks, last_exit, tr_pc, finalized,
                  update_result, detect_calls, iteration, consensus_result,
                  api_key, run_state, failed_task, capture_calls, crop_bbox,
                  analyzer_returned, pushing, last_event, commentary_context >>

\* the long-running tasks run starts in its task group (lines 1100-1107)
BackgroundTasks ==
  { "start_scene_detection", "fast_fen_detection_loop", "listen_user_audio",
    "transcribe_tv_audio", "receive_audio", "play_audio" }

\* whether an exception raised in the body of task t leaves the task:
\* start_scene_detection and receive_audio have no handler, listen_user_audio
\* re-raises (833-835); fast_fen_detection_loop (522-525) and
\* transcribe_tv_audio (850-853) catch it and go on, play_audio (1063-1064)
\* catches it and ends
escapes(t) == t \in { "start_scene_detection", "listen_user_audio", "receive_audio" }

\* run without its finally clause
release_missing(cap) == cap

\* run, lines 1118-1119: the capture device after the finally clause
release_on_exit(cap) == IF cap = "none" THEN "none" ELSE "released"

\* an exception is raised in the body of background task t. One that leaves the
\* task makes the task group cancel the other tasks and run's finally clause
\* release the device (1086-1123).
TaskRaises(t) ==
  /\ run_state = "running"
  /\ init_pc = "done"
  /\ t = "start_scene_detection" => shared_cap = "open"
  /\ t = "fast_fen_detection_loop" => poll_pc = "loop" /\ current_board_mask # NoneRec
  /\ failed_task' = t
  /\ IF escapes(t)
     THEN /\ run_state' = "torn_down"
          /\ shared_cap' = release_on_exit(shared_cap)
          /\ UNCHANGED << poll_pc, iteration >>
     ELSE /\ IF t = "fast_fen_detection_loop"
             THEN /\ poll_pc' = on_iteration_error
                  /\ iteration' = "raised"
             ELSE UNCHANGED << poll_pc, iteration >>
          /\ UNCHANGED << run_state, shared_cap >>
  /\ UNCHANGED << current_board, current_analysis, analyzing, watching_mode,
                  commentary_buffer, current_board_mask, init_pc, pending_updates,
                  now, produced, new_fen, fast_result, fallback_calls, tasks,
                  last_exit, tr_pc, finalized, update_result, detect_calls,
                  consensus_result, tool_pc, tool_response, api_key, capture_calls,
                  crop_bbox, analyzer_returned, pushing, last_event, inference,
                  commentary_context >>

(***************************************************************************)
(* Commentary buffer (filled by the transcription thread).                 *)
(***************************************************************************)
LineTags == << "a", "b", "c", "d", "e", "f", "g", "h", "i", "j", "k", "l", "m",
               "n", "o" >>

\* the k-th line that is spoken; every other one comes with a leading blank
Line(k) == IF k % 2 = 0 THEN << "T", LineTags[k] >> ELSE << " ", "T", LineTags[k] >>

\* str.strip()
RECURSIVE LStrip(_)
LStrip(t) == IF Len(t) > 0 /\ Head(t) = " " THEN LStrip(Tail(t)) ELSE t
RECURSIVE RStrip(_)
RStrip(t) ==
  IF Len(t) > 0 /\ t[Len(t)] = " " THEN RStrip(SubSeq(t, 1, Len(t) - 1)) ELSE t
strip(t) == RStrip(LStrip(t))

\* the recognition results that can arrive when k lines were finalized so far
TranscriptEvents(k) ==
  { [is_final |-> b, transcript |-> t] :
      b \in BOOLEAN, t \in { << >>, << " " >>, Line(k + 1) } }

\* every result with text taken for a line, the partial ones too
is_commentary_ignoring_final(ev) == Len(strip(ev.transcript)) > 0

\* _run_transcription_sync, line 882
IsCommentary(ev) == ev.is_final /\ Len(strip(ev.transcript)) > 0

\* the slice of line 890 taken from the wrong end
trim_keeps_oldest(buf) ==
  IF Len(buf) > BufferCapacity THEN SubSeq(buf, 1, BufferCapacity) ELSE buf

\* _run_transcription_sync, lines 889-890
trim(buf) ==
  IF Len(buf) > BufferCapacity
  THEN SubSeq(buf, Len(buf) - BufferCapacity + 1, Len(buf))
  ELSE buf

\* line 887 seen through the list the analyzer holds: append works in place,
\* so the line shows up there as long as that list is still the buffer
context_on_append(context, line) ==
  IF context # NoneRec /\ context.alias
  THEN [context EXCEPT !.lines = Append(@, line)]
  ELSE context

\* lines 889-890 seen through the list the analyzer holds: the slice is a new
\* list bound to self.commentary_buffer, the analyzer keeps the untrimmed one
context_on_trim(context, buf) ==
  IF context # NoneRec /\ context.alias /\ Len(buf) > BufferCapacity
  THEN [context EXCEPT !.alias = FALSE]
  ELSE context

\* a recognition result that passes the test of line 882 arrives: lines
\* 871-887, up to and including the append
TranscriptEvent ==
  /\ run_state = "running"
  /\ tr_pc = "idle"
  /\ \E ev \in TranscriptEvents(Len(finalized)) :
       /\ IsCommentary(ev)
       /\ Len(finalized) < MaxLines
       /\ last_event' = ev
       /\ commentary_buffer' = Append(commentary_buffer, ev.transcript)
       /\ commentary_context' = context_on_append(commentary_context, ev.transcript)
       /\ finalized' = Append(finalized, ev.transcript)
       /\ tr_pc' = "appended"
  /\ UNCHANGED << current_board, current_analysis, analyzing, watching_mode,
                  current_board_mask, shared_cap, init_pc, pending_updates, now,
                  produced, poll_pc, new_fen, fast_result, fallback_calls, tasks,
                  last_exit, update_result, detect_calls, iteration,
                  consensus_result, tool_pc, tool_response, api_key, run_state,
                  failed_task, capture_calls, crop_bbox, analyzer_returned,
                  pushing, inference >>

\* a recognition result that does not pass the test of line 882 arrives: the
\* loop of line 870 goes on to the next one
TranscriptIgnored ==
  /\ run_state = "running"
  /\ tr_pc = "idle"
  /\ \E ev \in TranscriptEvents(Len(finalized)) :
       /\ ~IsCommentary(ev)
       /\ last_event' = ev
  /\ UNCHANGED << current_board, current_analysis, analyzing, watching_mode,
                  commentary_buffer, current_board_mask, shared_cap, init_pc,
                  pending_updates, now, produced, poll_pc, new_fen, fast_result,
                  fallback_calls, tasks, last_exit, tr_pc, finalized,
                  update_result, detect_calls, iteration, consensus_result,
                  tool_pc, tool_response, api_key, run_state, failed_task,
                  capture_calls, crop_bbox, analyzer_returned, pushing, inference,
                  commentary_context >>

\* lines 889-890: the thread trims the buffer it appended to
TranscriptTrim ==
  /\ tr_pc = "appended"
  /\ commentary_buffer' = trim(commentary_buffer)
  /\ commentary_context' = context_on_trim(commentary_context, commentary_buffer)
  /\ tr_pc' = "idle"
  /\ UNCHANGED << current_board, current_analysis, analyzing, watching_mode,
                  current_board_mask, shared_cap, init_pc, pending_updates, now,
                  produced, poll_pc, new_fen, fast_result, fallback_calls, tasks,
                  last_exit, finalized, update_result, detect_calls, iteration,
                  consensus_result, tool_pc, tool_response, api_key, run_state,
                  failed_task, capture_calls, crop_bbox, analyzer_returned,
                  pushing, last_event, inference >>

(***************************************************************************)
(* Specification.                                                          *)
(***************************************************************************)
Init ==
  /\ current_board = None
  /\ current_analysis = NoneRec
  /\ analyzing = FALSE
  /\ watching_mode \in BOOLEAN
  /\ commentary_buffer = << >>
  /\ current_board_mask = NoneRec
  /\ shared_cap = "none"
  /\ init_pc = "start"
  /\ pending_updates = 0
  /\ now = 0
  /\ produced = NoneRec
  /\ poll_pc = "loop"
  /\ new_fen = None
  /\ fast_result = "none"
  /\ fallback_calls = 0
  /\ tasks = << >>
  /\ last_exit = "none"
  /\ tr_pc = "idle"
  /\ finalized = << >>
  /\ update_result = "none"
  /\ detect_calls = 0
  /\ iteration = "none"
  /\ consensus_result = "none"
  /\ tool_pc = "idle"
  /\ tool_response = NoResponse
  /\ api_key \in BOOLEAN
  /\ run_state = construct(api_key)
  /\ failed_task = "none"
  /\ capture_calls = 0
  /\ crop_bbox = NoBox
  /\ analyzer_returned = NoneRec
  /\ pushing = "none"
  /\ last_event = NoneRec
  /\ inference = "none"
  /\ commentary_context = NoneRec

Next ==
  \/ DetectInitial
  \/ OnSceneChange
  \/ UpdateBoardMask
  \/ Tick
  \/ PollIteration
  \/ FallbackReturn
  \/ PollerWake
  \/ \E i \in 1..Len(tasks) : AnalyzeStart(i)
  \/ \E i \in 1..Len(tasks) : AnalyzeReturn(i)
  \/ \E i \in 1..Len(tasks) : SendReturn(i)
  \/ ToolWatchingMode
  \/ ToolAnalyzeCall
  \/ ToolAnalyzeInferred
  \/ ToolResponseSent
  \/ \E t \in BackgroundTasks : TaskRaises(t)
  \/ Submit
  \/ TranscriptEvent
  \/ TranscriptIgnored
  \/ TranscriptTrim

\* the whole program: every task started by run
Spec == Init /\ [][Next]_vars

\* The transcription thread shares no state with the mask cache, so the
\* properties are checked on two parts of the program.
\* The vision pipeline: mask cache, poller, scheduler and tool calls
NextPipeline ==
  \/ DetectInitial
  \/ OnSceneChange
  \/ UpdateBoardMask
  \/ Tick
  \/ PollIteration
  \/ FallbackReturn
  \/ PollerWake
  \/ \E i \in 1..Len(tasks) : AnalyzeStart(i)
  \/ \E i \in 1..Len(tasks) : AnalyzeReturn(i)
  \/ \E i \in 1..Len(tasks) : SendReturn(i)
  \/ ToolWatchingMode

SpecPipeline == Init /\ [][NextPipeline]_vars

\* the transcription thread next to the poller and the scheduler, with the
\* mask as detect_initial_board_mask left it
NextCommentary ==
  \/ DetectInitial
  \/ PollIteration
  \/ FallbackReturn
  \/ PollerWake
  \/ \E i \in 1..Len(tasks) : AnalyzeStart(i)
  \/ \E i \in 1..Len(tasks) : AnalyzeReturn(i)
  \/ \E i \in 1..Len(tasks) : SendReturn(i)
  \/ TranscriptEvent
  \/ TranscriptTrim

SpecCommentary == Init /\ [][NextCommentary]_vars

\* analyze_new_position as a function of its own: calls arrive at any time
NextScheduler ==
  \/ Submit
  \/ \E i \in 1..Len(tasks) : AnalyzeStart(i)
  \/ \E i \in 1..Len(tasks) : AnalyzeReturn(i)
  \/ \E i \in 1..Len(tasks) : SendReturn(i)
  \/ ToolWatchingMode

SpecScheduler == Init /\ [][NextScheduler]_vars

\* the transcription thread alone, with every recognition result it can get
NextTranscript ==
  \/ TranscriptEvent
  \/ TranscriptIgnored
  \/ TranscriptTrim

SpecTranscript == Init /\ [][NextTranscript]_vars

\* the poller, the scheduler and the watching toggle, with the mask as
\* detect_initial_board_mask left it
NextPoller ==
  \/ DetectInitial
  \/ PollIteration
  \/ FallbackReturn
  \/ PollerWake
  \/ \E i \in 1..Len(tasks) : AnalyzeStart(i)
  \/ \E i \in 1..Len(tasks) : AnalyzeReturn(i)
  \/ \E i \in 1..Len(tasks) : SendReturn(i)
  \/ ToolWatchingMode

SpecPoller == Init /\ [][NextPoller]_vars

\* the tool calls next to the poller and the scheduler
NextTools ==
  \/ DetectInitial
  \/ PollIteration
  \/ FallbackReturn
  \/ PollerWake
  \/ \E i \in 1..Len(tasks) : AnalyzeStart(i)
  \/ \E i \in 1..Len(tasks) : AnalyzeReturn(i)
  \/ \E i \in 1..Len(tasks) : SendReturn(i)
  \/ ToolWatchingMode
  \/ ToolAnalyzeCall
  \/ ToolAnalyzeInferred
  \/ ToolResponseSent

SpecTools == Init /\ [][NextTools]_vars

\* an awaited call of the tool handler returns; nothing is assumed about the
\* analyzer
FairTools ==
  /\ SpecTools
  /\ WF_vars(ToolAnalyzeInferred)
  /\ WF_vars(ToolResponseSent)

\* construction, the capture device and the task group: the failures of the
\* background tasks next to the mask cache and the poller
NextLifecycle ==
  \/ DetectInitial
  \/ OnSceneChange
  \/ UpdateBoardMask
  \/ PollIteration
  \/ FallbackReturn
  \/ PollerWake
  \/ \E i \in 1..Len(tasks) : AnalyzeStart(i)
  \/ \E t \in BackgroundTasks : TaskRaises(t)

SpecLifecycle == Init /\ [][NextLifecycle]_vars

\* extract_fen_with_cached_mask as a function of the mask and of what its
\* detectors meet: the call is made with every mask, None included, and on
\* every board
InitExtract ==
  /\ current_board \in { None } \cup ValidFens
  /\ current_analysis = NoneRec
  /\ analyzing = FALSE
  /\ watching_mode \in BOOLEAN
  /\ commentary_buffer = << >>
  /\ current_board_mask \in
       { NoneRec } \cup { MaskRecord(o, 0) : o \in { u \in UpdateOutcomes : u.kind = "bbox" } }
  /\ shared_cap = "open"
  /\ init_pc = "done"
  /\ pending_updates = 0
  /\ now = 0
  /\ produced = current_board_mask
  /\ poll_pc = "loop"
  /\ new_fen = None
  /\ fast_result = "none"
  /\ fallback_calls = 0
  /\ tasks = << >>
  /\ last_exit = "none"
  /\ tr_pc = "idle"
  /\ finalized = << >>
  /\ update_result = IF current_board_mask = NoneRec THEN "none" ELSE "updated"
  /\ detect_calls = 0
  /\ iteration = "none"
  /\ consensus_result = "none"
  /\ tool_pc = "idle"
  /\ tool_response = NoResponse
  /\ api_key = TRUE
  /\ run_state = construct(api_key)
  /\ failed_task = "none"
  /\ capture_calls = 0
  /\ crop_bbox = NoBox
  /\ analyzer_returned = NoneRec
  /\ pushing = "none"
  /\ last_event = NoneRec
  /\ inference = "none"
  /\ commentary_context = NoneRec

NextExtract ==
  \/ ExtractCall
  \/ FallbackReturn
  \/ PollerWake
  \/ \E i \in 1..Len(tasks) : AnalyzeStart(i)

SpecExtract == InitExtract /\ [][NextExtract]_vars

\* the mask cache next to the poller: scene changes and mask updates interleave
\* with polling iterations; the analyzer's answers are left out
NextMask ==
  \/ DetectInitial
  \/ OnSceneChange
  \/ UpdateBoardMask
  \/ Tick
  \/ PollIteration
  \/ FallbackReturn
  \/ PollerWake
  \/ \E i \in 1..Len(tasks) : AnalyzeStart(i)

SpecMask == Init /\ [][NextMask]_vars

\* the scheduling the event loop guarantees: a task whose awaited call has
\* completed is resumed
FairPipeline ==
  /\ SpecPipeline
  /\ WF_vars(\E i \in 1..Len(tasks) : AnalyzeReturn(i))
  /\ WF_vars(\E i \in 1..Len(tasks) : SendReturn(i))

\* the same for the poller: a sleep ends, the consensus detector answers, and
\* a created task gets its first turn
FairPoller ==
  /\ SpecPoller
  /\ WF_vars(PollerWake)
  /\ WF_vars(FallbackReturn)
  /\ WF_vars(\E i \in 1..Len(tasks) : AnalyzeStart(i))
  /\ WF_vars(\E i \in 1..Len(tasks) : AnalyzeReturn(i))
  /\ WF_vars(\E i \in 1..Len(tasks) : SendReturn(i))

(***************************************************************************)
(* Properties.                                                             *)
(***************************************************************************)
Running(ts) == { i \in 1..Len(ts) : ts[i].pc \in { "analyzing", "sending" } }
Created(ts) == { i \in 1..Len(ts) : ts[i].pc = "created" }

\* a step in which the poller ends an iteration
IterationEnds == poll_pc \in { "loop", "fallback" } /\ poll_pc' \in { "sleep2", "sleep5" }
\* a step in which on_board_change ran
BoardChanges == current_board' # current_board
\* a step in which an analysis task is created
TaskSubmitted == Len(tasks') > Len(tasks)
\* a step in which a task that holds the busy flag ends
AnalysisEnds ==
  \E i \in 1..Len(tasks) :
    tasks[i].pc \in { "analyzing", "sending" } /\ tasks' = Remove(tasks, i)
\* a step that runs update_board_mask
UpdateRuns ==
  \/ pending_updates' < pending_updates
  \/ init_pc = "start" /\ init_pc' = "done"

\* C1: current_board changes in a step if and only if the step ends a polling
\* iteration whose extracted string is non-empty, passes is_valid_fen and
\* differs from current_board; the new value is then the extracted string.
C1_BoardChangesIffValidNewFen ==
  [][ /\ BoardChanges <=> ( /\ IterationEnds
                            /\ new_fen' # None
                            /\ Len(new_fen') > 0
                            /\ is_valid_fen(new_fen')
                            /\ new_fen' # current_board )
      /\ BoardChanges => current_board' = new_fen' ]_vars

\* a second position was detected and recorded, and its analysis is submitted
C1_Witness ==
  /\ poll_pc = "sleep5"
  /\ new_fen = current_board
  /\ current_analysis # NoneRec
  /\ current_analysis.fen # current_board
  /\ \E i \in 1..Len(tasks) : tasks[i].pc = "created" /\ tasks[i].fen = new_fen

\* C2: at most one analyze_new_position is past its busy check, and the flag is
\* up exactly while one is.
C2_AtMostOneAnalysis ==
  /\ Cardinality(Running(tasks)) <= 1
  /\ analyzing <=> Cardinality(Running(tasks)) = 1

\* an analysis is in flight while the poller has recorded a newer position and
\* is about to poll again
C2_Witness ==
  /\ analyzing
  /\ poll_pc = "loop"
  /\ \E i \in 1..Len(tasks) : tasks[i].pc = "analyzing" /\ tasks[i].fen # current_board

\* C3 as stated: every change of current_board submits an analysis.
C3_EveryChangeAnalyzed ==
  [][ BoardChanges => TaskSubmitted ]_vars

\* C3 amended: a change of current_board submits exactly one analysis of the new
\* position when no analysis is in flight and none when one is; analyses are
\* submitted by changes only, and a submitted analysis is never turned away.
C3_OneAnalysisPerChangeWhenIdle ==
  [][ /\ BoardChanges =>
           IF analyzing
           THEN tasks' = tasks
           ELSE tasks' = Append(tasks, [pc |-> "created", fen |-> current_board'])
      /\ TaskSubmitted => BoardChanges
      /\ \A i \in 1..Len(tasks) :
           tasks[i].pc = "created" => tasks' # Remove(tasks, i) ]_vars

\* the analysis of a second position, submitted while the scheduler was idle,
\* has started
C3_Witness ==
  /\ poll_pc = "sleep5"
  /\ new_fen = current_board
  /\ current_analysis # NoneRec
  /\ current_analysis.fen # current_board
  /\ tasks = << [pc |-> "analyzing", fen |-> current_board] >>

\* C4: a valid new position found while an analysis is in flight is recorded
\* and submits nothing; when the analysis in flight ends the flag is down and
\* no analysis is pending; nothing but a change ever submits one.
C4_ChangeWhileAnalyzingIsDropped ==
  [][ /\ ( /\ analyzing
           /\ IterationEnds
           /\ new_fen' # None /\ Len(new_fen') > 0
           /\ is_valid_fen(new_fen')
           /\ new_fen' # current_board )
         => ( current_board' = new_fen' /\ tasks' = tasks /\ analyzing' )
      /\ AnalysisEnds => ( ~analyzing' /\ Created(tasks') = { } /\ Running(tasks') = { } )
      /\ TaskSubmitted => BoardChanges ]_vars

\* the analysis in flight has ended with its result stored, the board holds a
\* position found meanwhile, and nothing is running or pending
C4_Witness ==
  /\ last_exit = "stored"
  /\ ~analyzing
  /\ tasks = << >>
  /\ current_analysis # NoneRec
  /\ current_board # None
  /\ current_analysis.fen # current_board

\* C5: an analysis that ends leaves the flag down, however it ends, and an
\* analysis in flight always ends.
C5_BusyFlagAlwaysCleared ==
  /\ [][ AnalysisEnds => ~analyzing' ]_vars
  /\ analyzing ~> ~analyzing

\* the analyzer raised in one analysis, and a later analysis is running
C5_Witness ==
  /\ last_exit = "analyzer_raised"
  /\ analyzing
  /\ \E i \in 1..Len(tasks) : tasks[i].pc = "analyzing"

\* C6: the buffer never holds more than 10 lines.
C6_BufferAtMostTen == Len(commentary_buffer) <= BufferCapacity

\* the last m elements of seq, or all of them
LastLines(seq, m) ==
  IF Len(seq) <= m THEN seq
  ELSE [ i \in 1..m |-> seq[Len(seq) - m + i] ]

\* C7: once a line is handled, the buffer is the last min(n, 10) of the n lines
\* appended so far, in arrival order.
C7_BufferIsLastTen ==
  tr_pc = "idle" => commentary_buffer = LastLines(finalized, BufferCapacity)

\* eleven lines arrived and the first one was evicted
C7_Witness ==
  /\ tr_pc = "idle"
  /\ Len(finalized) = BufferCapacity + 1
  /\ Len(commentary_buffer) = BufferCapacity
  /\ commentary_buffer[1] = Line(2)
  /\ commentary_buffer[BufferCapacity] = Line(BufferCapacity + 1)

\* C8: the mask is None or the complete record of one update call, and only a
\* run of update_board_mask changes it.
C8_MaskWholeOrNone ==
  /\ [] ( \/ current_board_mask = NoneRec
          \/ /\ DOMAIN current_board_mask = { "bbox", "confidence", "timestamp" }
             /\ current_board_mask = produced )
  /\ [][ current_board_mask' # current_board_mask => UpdateRuns ]_vars

\* a later update replaced the mask
C8_Witness ==
  /\ init_pc = "done"
  /\ current_board_mask # NoneRec
  /\ current_board_mask.timestamp > 0

\* C9: a step whose fast path detects fewer than 2 pieces or the empty board
\* changes no board and starts no analysis.
C9_RejectedFastResultChangesNothing ==
  [][ fast_result' \in { "few_pieces", "empty_board" }
        => ( /\ current_board' = current_board
             /\ ~TaskSubmitted
             /\ analyzing' => analyzing ) ]_vars

\* an iteration on a known board ended with the empty-board result
C9_Witness ==
  /\ poll_pc = "sleep5"
  /\ fast_result = "empty_board"
  /\ new_fen = None
  /\ current_board \in ValidFens

\* C10: an extraction whose fast path detects fewer than 2 pieces or the empty
\* board has called the fallback detector.
C10_RejectedFastResultFallsBack ==
  fast_result \in { "few_pieces", "empty_board" } => fallback_calls >= 1

\* C11: after an update_board_mask call that failed (capture failure, no
\* predictions, no bounding box, or an exception) the mask is None.
C11_FailedUpdateClearsMask ==
  update_result = "failed" => current_board_mask = NoneRec

\* a step in which the poller calls extract_fen_with_cached_mask
ExtractionRuns == poll_pc = "loop" /\ fast_result' # "none"

\* C12 as stated: a successful update call leaves the mask non-None, a None mask
\* stays None until such a call, and every extraction of the poller issues one
\* piece-detection call.
C12_ExtractionAfterSuccessDetectsOnce ==
  [][ /\ ( UpdateRuns /\ update_result' = "updated" ) => current_board_mask' # NoneRec
      /\ ( current_board_mask = NoneRec /\ current_board_mask' # NoneRec )
           => ( UpdateRuns /\ update_result' = "updated" )
      /\ ( poll_pc = "loop" /\ poll_pc' # "loop" /\ current_board_mask # NoneRec )
           => iteration' # "no_mask"
      /\ ExtractionRuns => detect_calls' = 1 ]_vars

\* C12 amended: a successful update call leaves the mask non-None and a None mask
\* stays None until such a call; with a mask the poller never waits for one, and
\* its extraction never defers for lack of a mask: it issues one piece-detection
\* call unless the cached box has no area or a step raises, it issues none on a
\* box without area, and it calls the consensus detector only when the fast path
\* gave no detection.
C12_ExtractionAfterSuccessEntersFastPath ==
  [][ /\ ( UpdateRuns /\ update_result' = "updated" ) => current_board_mask' # NoneRec
      /\ ( current_board_mask = NoneRec /\ current_board_mask' # NoneRec )
           => ( UpdateRuns /\ update_result' = "updated" )
      /\ ( poll_pc = "loop" /\ poll_pc' # "loop" /\ current_board_mask # NoneRec )
           => iteration' # "no_mask"
      /\ ExtractionRuns =>
           /\ current_board_mask # NoneRec
           /\ fast_result' # "no_mask"
           /\ detect_calls' <= 1
           /\ fast_result' \notin { "raised", "empty_crop" } => detect_calls' = 1
           /\ fast_result' = "empty_crop" => detect_calls' = 0
           /\ fallback_calls' > 0 <=> fast_result' \in { "raised", "empty_crop", "no_result" } ]_vars

\* the first update call failed, a later one cached a mask, and the poller's
\* extraction found a position with one piece-detection call and no consensus call
C12_Witness ==
  /\ update_result = "updated"
  /\ current_board_mask # NoneRec
  /\ current_board_mask.timestamp > 0
  /\ poll_pc = "sleep5"
  /\ fast_result = "position"
  /\ detect_calls = 1
  /\ fallback_calls = 0
  /\ new_fen = current_board

\* a step that ends an iteration without an accepted position: the capture
\* failed, an exception reached the loop's handler, or the extracted value is
\* absent, empty or invalid
IterationFails ==
  /\ IterationEnds
  /\ \/ iteration' \in { "capture_failed", "raised" }
     \/ /\ iteration' = "extracted"
        /\ ~( new_fen' # None /\ Len(new_fen') > 0 /\ is_valid_fen(new_fen') )

\* C13: the polling loop is never left; an iteration that fails leaves
\* current_board as it was and ends in the loop's sleep, and from every sleep
\* or detector call the loop reaches its next iteration.
C13_LoopSurvivesFailures ==
  /\ [] ( poll_pc \in { "loop", "fallback", "sleep2", "sleep5" } )
  /\ [][ IterationFails =>
           ( current_board' = current_board /\ poll_pc' \in { "sleep2", "sleep5" } ) ]_vars
  /\ ( poll_pc # "loop" ) ~> ( poll_pc = "loop" )

\* with a position on the board, an iteration ended in the loop's exception
\* handler and the board still holds that position
C13_Witness ==
  /\ poll_pc = "sleep5"
  /\ iteration = "raised"
  /\ current_board \in ValidFens
  /\ current_analysis # NoneRec
  /\ current_analysis.fen = current_board

\* C14: the step in which the consensus detector reports fewer than 2 pieces or
\* the empty board, or raises, yields no position and changes none of
\* current_board, current_analysis, analyzing and the mask, and starts no
\* analysis; neither does the step that called the detector.
C14_RejectedConsensusChangesNothing ==
  [][ ( \/ poll_pc = "loop" /\ poll_pc' = "fallback"
        \/ /\ poll_pc = "fallback"
           /\ consensus_result' \in { "few_pieces", "empty_board", "raised" } )
        => ( /\ poll_pc = "fallback" => ( new_fen' = None /\ poll_pc' = "sleep5" )
             /\ current_board' = current_board
             /\ current_analysis' = current_analysis
             /\ analyzing' = analyzing
             /\ current_board_mask' = current_board_mask
             /\ tasks' = tasks ) ]_vars

\* on a known, analysed board the consensus detector reported fewer than 2
\* pieces and the iteration ended without a position
C14_Witness ==
  /\ poll_pc = "sleep5"
  /\ consensus_result = "few_pieces"
  /\ fallback_calls = 1
  /\ new_fen = None
  /\ current_board \in ValidFens
  /\ current_analysis # NoneRec

\* C15: a step that runs on_board_change, or a step of an
\* analyze_new_position task, leaves the commentary buffer as it was.
C15_ChangeKeepsCommentary ==
  [][ ( BoardChanges \/ tasks' # tasks \/ analyzing' # analyzing
        \/ current_analysis' # current_analysis )
        => commentary_buffer' = commentary_buffer ]_vars

\* lines are in the buffer, an analysis has been stored, and the analysis of a
\* later position is running
C15_Witness ==
  /\ Len(commentary_buffer) >= 2
  /\ commentary_buffer = finalized
  /\ current_analysis # NoneRec
  /\ current_analysis.fen # current_board
  /\ tasks = << [pc |-> "analyzing", fen |-> current_board] >>

\* a step of handle_tool_call serving analyze_current_position
ToolStep == tool_pc' # tool_pc

\* C16: no step of an analyze_current_position call changes current_board,
\* analyzing or the stored analysis, or starts an analysis; a call that finds no
\* stored analysis builds the result no_analysis at once; and a call always
\* comes to its end, whatever the analysis tasks do.
C16_ToolCallOnlyReads ==
  /\ [][ ToolStep =>
           ( /\ current_board' = current_board
             /\ analyzing' = analyzing
             /\ current_analysis' = current_analysis
             /\ tasks' = tasks ) ]_vars
  /\ [][ ( ToolStep /\ tool_pc = "idle" /\ current_analysis = NoneRec )
           => ( tool_pc' = "sending" /\ tool_response'.status = "no_analysis" ) ]_vars
  /\ [] ( tool_response.status = "analysis_ready" => current_analysis # NoneRec )
  /\ ( tool_pc # "idle" ) ~> ( tool_pc = "idle" )

\* a call is answered from the stored analysis of an earlier position while
\* the analysis of the current position is still running
C16_Witness ==
  /\ tool_pc = "sending"
  /\ tool_response.status = "analysis_ready"
  /\ tool_response.served = "black"
  /\ analyzing
  /\ current_analysis.fen # current_board
  /\ current_analysis.queried = { }
  /\ tasks = << [pc |-> "analyzing", fen |-> current_board] >>

\* C17: once the capture device could not be opened, the only step the running
\* pipeline takes is its teardown.
C17_UnopenedDeviceIsFatal ==
  [][ ( shared_cap = "unopened" /\ run_state = "running" )
        => ( run_state' = "torn_down" /\ shared_cap' = "released" ) ]_vars

\* C18 as stated: after an exception in any background task the pipeline is
\* torn down and the capture device released.
C18_AnyTaskFailureTearsDown ==
  failed_task # "none" => ( run_state = "torn_down" /\ shared_cap = "released" )

\* C18 amended: after an exception in scene detection, microphone capture or
\* the response receiver the pipeline is torn down, the capture device is
\* released and no task takes another step; after one in the poller, the
\* transcription or the playback the pipeline is still running.
C18_EscapingFailureTearsDown ==
  /\ [] ( failed_task \in { "start_scene_detection", "listen_user_audio", "receive_audio" }
            => ( run_state = "torn_down" /\ shared_cap = "released" ) )
  /\ [] ( failed_task \in { "fast_fen_detection_loop", "transcribe_tv_audio", "play_audio" }
            => run_state = "running" )
  /\ [] ( run_state = "torn_down" => failed_task # "none" )
  /\ [][ run_state # "torn_down" ]_vars

\* the response receiver raised while the poller, with a position on the
\* board, was waiting for the consensus detector: the pipeline is torn down
C18_Witness ==
  /\ failed_task = "receive_audio"
  /\ run_state = "torn_down"
  /\ shared_cap = "released"
  /\ current_board \in ValidFens
  /\ poll_pc = "fallback"

\* C19: without the key there is no instance, and nothing of the pipeline ever
\* runs: no device is opened, no iteration polled, no task created, no line
\* transcribed, no tool call served.
C19_NoKeyNothingRuns ==
  ~api_key =>
    /\ run_state = "not_constructed"
    /\ init_pc = "start"
    /\ shared_cap = "none"
    /\ current_board_mask = NoneRec
    /\ pending_updates = 0
    /\ poll_pc = "loop"
    /\ iteration = "none"
    /\ current_board = None
    /\ tasks = << >>
    /\ ~analyzing
    /\ tool_pc = "idle"
    /\ tr_pc = "idle"
    /\ finalized = << >>
    /\ failed_task = "none"

\* the key is not set and the constructor has raised
C19_Witness == ~api_key /\ run_state = "not_constructed"

\* C20: an extraction called with the mask None issues no piece-detection call
\* and returns nothing of its own: it calls the consensus detector once, and its
\* result is what that detector's answer gives, None for an answer the fallback
\* rejects and never the empty board.
C20_NoMaskDefersToConsensus ==
  /\ [][ ( poll_pc = "loop" /\ poll_pc' # "loop" /\ current_board_mask = NoneRec )
           => ( /\ fast_result' = "no_mask"
                /\ detect_calls' = 0
                /\ fallback_calls' = 1
                /\ poll_pc' = "fallback"
                /\ new_fen' = new_fen
                /\ current_board' = current_board ) ]_vars
  /\ [][ ( poll_pc = "fallback" /\ poll_pc' # "fallback" /\ fast_result = "no_mask" )
           => ( /\ detect_calls' = 0
                /\ fallback_calls' = 1
                /\ consensus_result' \in { "raised", "few_pieces", "empty_board" }
                     => new_fen' = None
                /\ consensus_result' = "position" => new_fen' # EMPTY_BOARD_FEN ) ]_vars
  /\ [] ( ( fast_result = "no_mask" /\ new_fen # None ) => consensus_result = "position" )

\* an extraction without a mask got its position from the consensus detector,
\* and the board holds it
C20_Witness ==
  /\ current_board_mask = NoneRec
  /\ fast_result = "no_mask"
  /\ detect_calls = 0
  /\ fallback_calls = 1
  /\ consensus_result = "position"
  /\ poll_pc = "sleep5"
  /\ new_fen \in ValidFens
  /\ new_fen = current_board

\* a step in which the poller starts an iteration and finds no mask
NullMaskIteration == poll_pc = "loop" /\ poll_pc' # "loop" /\ current_board_mask = NoneRec

\* C21 as stated: an iteration that finds the mask None reads no frame, calls
\* neither detector and changes no state, and current_board never changes in a
\* step taken while the mask is None.
C21_NoChangeWhileMaskNull ==
  /\ [][ NullMaskIteration
           => ( /\ poll_pc' = "sleep2"
                /\ capture_calls' = 0 /\ detect_calls' = 0 /\ fallback_calls' = 0
                /\ UNCHANGED << current_board, current_analysis, analyzing,
                                current_board_mask, tasks >> ) ]_vars
  /\ [][ current_board_mask = NoneRec => current_board' = current_board ]_vars

\* C21: an iteration that finds the mask None reads no frame, calls neither the
\* fast path nor the consensus detector, keeps current_board, current_analysis,
\* analyzing, the mask and the tasks, and goes to the two-second sleep; so a
\* position change seen while the mask is None comes only from a consensus call
\* of an iteration that began while there was a mask.
C21_NullMaskIterationOnlyWaits ==
  /\ [][ NullMaskIteration
           => ( /\ poll_pc' = "sleep2"
                /\ iteration' = "no_mask"
                /\ capture_calls' = 0 /\ detect_calls' = 0 /\ fallback_calls' = 0
                /\ fast_result' = "none"
                /\ new_fen' = new_fen
                /\ UNCHANGED << current_board, current_analysis, analyzing,
                                current_board_mask, tasks >> ) ]_vars
  /\ [][ ( current_board_mask = NoneRec /\ BoardChanges )
           => ( poll_pc = "fallback" /\ capture_calls = 1
                /\ fast_result \in { "raised", "empty_crop", "no_result" } ) ]_vars

\* the mask was lost after a position was known, and the iteration that found it
\* missing went to sleep without reading a frame
C21_Witness ==
  /\ current_board_mask = NoneRec
  /\ update_result = "failed"
  /\ iteration = "no_mask"
  /\ poll_pc = "sleep2"
  /\ capture_calls = 0
  /\ fallback_calls = 0
  /\ current_board \in ValidFens

\* what the fast path reports when it did not come to a detection result
FastPathFailed == { "raised", "empty_crop", "no_result" }

\* C22: an extraction whose crop is empty, whose piece detector returns nothing
\* or in which a step raises returns nothing of its own: it calls the consensus
\* detector once, on the frame it holds, and its result is what that detector's
\* answer gives, None for an answer the fallback rejects and never the empty
\* board.
C22_FailedFastPathDefersToConsensus ==
  /\ [][ ( poll_pc = "loop" /\ fast_result' \in FastPathFailed )
           => ( /\ poll_pc' = "fallback"
                /\ capture_calls' = 1
                /\ fallback_calls' = 1
                /\ new_fen' = new_fen
                /\ current_board' = current_board ) ]_vars
  /\ [][ ( poll_pc = "fallback" /\ poll_pc' # "fallback" /\ fast_result \in FastPathFailed )
           => ( /\ capture_calls' = 1
                /\ fallback_calls' = 1
                /\ detect_calls' = detect_calls
                /\ consensus_result' # "none"
                /\ consensus_result' \in { "raised", "few_pieces", "empty_board" }
                     => new_fen' = None
                /\ consensus_result' = "position" => new_fen' # EMPTY_BOARD_FEN ) ]_vars
  /\ [] ( ( fast_result \in FastPathFailed /\ new_fen # None )
            => consensus_result = "position" )

\* the piece detector of the fast path returned nothing on a crop with area, and
\* the position the consensus detector gave became the board
C22_Witness ==
  /\ current_board_mask # NoneRec
  /\ fast_result = "no_result"
  /\ detect_calls = 1
  /\ fallback_calls = 1
  /\ consensus_result = "position"
  /\ poll_pc = "sleep5"
  /\ new_fen \in ValidFens
  /\ new_fen = current_board

\* C23: no extraction calls the consensus detector more than once, an extraction
\* calls it only when the fast path had no mask, raised, had an empty crop or
\* got nothing from the piece detector, and an extraction in which the fast
\* path came to a detection result (a position, too few pieces, the empty
\* board) never calls it.
C23_ConsensusOnlyAfterFastPathFailure ==
  /\ fallback_calls <= 1
  /\ ( fallback_calls > 0 \/ poll_pc = "fallback" \/ consensus_result # "none" )
       => ( fallback_calls = 1
            /\ fast_result \in { "no_mask", "raised", "empty_crop", "no_result" } )
  /\ fast_result \in { "position", "few_pieces", "empty_board" }
       => ( fallback_calls = 0 /\ consensus_result = "none" /\ poll_pc # "fallback" )

\* an extraction returned the position of the fast path and the consensus
\* detector was not called
C23_Witness ==
  /\ fast_result = "position"
  /\ detect_calls = 1
  /\ fallback_calls = 0
  /\ consensus_result = "none"
  /\ poll_pc = "sleep5"
  /\ new_fen \in ValidFens
  /\ new_fen = current_board

\* the cached mask is there and the crop by its bbox has area
CropHasArea ==
  /\ current_board_mask # NoneRec
  /\ current_board_mask.bbox[3] # current_board_mask.bbox[1]
  /\ current_board_mask.bbox[4] # current_board_mask.bbox[2]

\* C24 as stated: every extraction with a mask and a crop with area issues
\* exactly one piece-detection call.
C24_ExactlyOneDetectionCall ==
  [][ ( ExtractionRuns /\ CropHasArea ) => detect_calls' = 1 ]_vars

\* C24: an extraction with a mask and a crop with area issues at most one
\* piece-detection call, and exactly one unless a step of the fast path raised;
\* the consensus detector's return adds none.
C24_OneDetectionCallUnlessRaised ==
  /\ [][ ( ExtractionRuns /\ CropHasArea )
           => ( /\ detect_calls' <= 1
                /\ fast_result' # "raised" => detect_calls' = 1 ) ]_vars
  /\ [][ ( poll_pc = "fallback" /\ poll_pc' # "fallback" )
           => detect_calls' = detect_calls ]_vars
  /\ [] ( detect_calls <= 1 )

\* the piece detector was called once on a crop with area and returned nothing;
\* the extraction waits for the consensus detector
C24_Witness ==
  /\ CropHasArea
  /\ fast_result = "no_result"
  /\ detect_calls = 1
  /\ poll_pc = "fallback"

\* C25: the bbox an extraction crops by is the bbox of the mask that the
\* extraction found there when it started, and it stays that extraction's crop
\* box until the iteration is over, whatever update_board_mask does to the mask
\* in the meantime; an extraction without a mask crops nothing.
C25_CropUsesMaskSeenAtStart ==
  /\ [][ ( ExtractionRuns /\ current_board_mask # NoneRec )
           => ( /\ crop_bbox' \in { NoBox, current_board_mask.bbox }
                /\ fast_result' # "raised" => crop_bbox' = current_board_mask.bbox ) ]_vars
  /\ [][ ( ExtractionRuns /\ current_board_mask = NoneRec ) => crop_bbox' = NoBox ]_vars
  /\ [][ poll_pc # "loop" /\ poll_pc' # "loop" => crop_bbox' = crop_bbox ]_vars

\* an update set the mask to None while an extraction that had cropped by the
\* earlier mask was waiting for the consensus detector
C25_Witness ==
  /\ poll_pc = "fallback"
  /\ fast_result = "no_result"
  /\ crop_bbox = << 1, 1, 3, 3 >>
  /\ current_board_mask = NoneRec
  /\ update_result = "failed"

\* a step in which the analyzer returns a result to the task that awaits it
AnalyzerSucceeds ==
  \E i \in 1..Len(tasks) :
    /\ tasks[i].pc = "analyzing"
    /\ \/ tasks' = [tasks EXCEPT ![i].pc = "sending"]
       \/ tasks' = Remove(tasks, i) /\ last_exit' \in { "stored", "no_white" }

\* C26: current_analysis changes only in a step in which the analyzer returns a
\* result; it always holds the position and the perspectives of the last result
\* the analyzer returned and nothing else; a step in which the analyzer raises
\* and a step in which the forwarding of the narrative ends, failed or not,
\* leave it unchanged.
C26_AnalysisIsLastAnalyzerResult ==
  /\ [][ current_analysis' # current_analysis => AnalyzerSucceeds ]_vars
  /\ [] ( IF analyzer_returned = NoneRec
          THEN current_analysis = NoneRec
          ELSE /\ current_analysis # NoneRec
               /\ current_analysis.fen = analyzer_returned.fen
               /\ current_analysis.perspectives = analyzer_returned.perspectives
               /\ current_analysis.queried = { } )
  /\ [][ ( AnalysisEnds /\ last_exit' \in { "analyzer_raised", "sent", "send_failed" } )
           => current_analysis' = current_analysis ]_vars

\* the forwarding of a narrative failed and the result it was taken from is
\* stored: a result without a black entry, so nothing of an earlier one is kept
C26_Witness ==
  /\ last_exit = "send_failed"
  /\ ~analyzing
  /\ current_analysis # NoneRec
  /\ current_analysis.perspectives = { "white" }
  /\ current_analysis.fen = FenE4

\* C27: the sending of a narrative starts only in a step in which the analyzer
\* returns a result while watching_mode is set, and the narrative is that of the
\* white entry of the result just stored; when the analyzer returns a result
\* while watching_mode is not set, the task ends with the result stored and
\* nothing is sent; and nothing is sent when the analyzer raises.
C27_PushOnlyWhenWatchingAtCompletion ==
  /\ [][ ( pushing' # "none" /\ pushing = "none" )
           => ( /\ AnalyzerSucceeds
                /\ watching_mode
                /\ pushing' = "white"
                /\ "white" \in current_analysis'.perspectives
                /\ current_analysis'.perspectives = analyzer_returned'.perspectives ) ]_vars
  /\ [][ ( AnalyzerSucceeds /\ ~watching_mode )
           => ( /\ pushing' = "none"
                /\ last_exit' = "stored"
                /\ AnalysisEnds
                /\ current_analysis' # NoneRec
                /\ current_analysis'.fen = analyzer_returned'.fen
                /\ current_analysis'.perspectives = analyzer_returned'.perspectives ) ]_vars
  /\ [][ ( AnalysisEnds /\ last_exit' = "analyzer_raised" ) => pushing' = "none" ]_vars
  /\ [] ( pushing \in { "none", "white" } )
  /\ [] ( pushing # "none" <=> \E i \in 1..Len(tasks) : tasks[i].pc = "sending" )

\* watching mode was switched off while the analyzer was at work and the
\* narrative of the white entry is being sent all the same: watching_mode was
\* set when the analyzer returned and was switched off after that
C27_Witness ==
  /\ pushing = "white"
  /\ ~watching_mode
  /\ analyzing
  /\ current_analysis # NoneRec
  /\ current_analysis.perspectives = { "white", "black" }

\* a transcript with a character that is not a blank
HasText(t) == \E i \in 1..Len(t) : t[i] # " "

\* C28: when the transcription thread handles a recognition result, the buffer
\* gets that result's transcript appended as its new last line if the result is
\* final and its transcript has text, and is left as it was if the result is
\* partial or its transcript is empty or blank.
C28_OnlyFinalTextIsAppended ==
  [][ tr_pc = "idle"
        => IF last_event'.is_final /\ HasText(last_event'.transcript)
           THEN commentary_buffer' = Append(commentary_buffer, last_event'.transcript)
           ELSE commentary_buffer' = commentary_buffer ]_vars

\* the partial result of the third line was handled and the buffer still holds
\* the two lines before it
C28_Witness ==
  /\ tr_pc = "idle"
  /\ last_event = [is_final |-> FALSE, transcript |-> Line(3)]
  /\ commentary_buffer = << Line(1), Line(2) >>

\* the ways the perspective inference of a tool call fails: no frame, the read
\* raising, the context extraction or the determination raising
InferenceFailures == { "no_frame", "read_raised", "raised" }

\* C29: a call of analyze_current_position whose inference fails builds its
\* result at once with the perspective white: the white entry of the stored
\* analysis, reported as white, or no_analysis when the stored analysis has no
\* white entry; it never reports black.
C29_FailedInferenceMeansWhite ==
  /\ [][ ( ToolStep /\ inference' \in InferenceFailures )
           => ( /\ tool_pc' = "sending"
                /\ IF "white" \in current_analysis.perspectives
                   THEN tool_response' = [status |-> "analysis_ready",
                                          perspective |-> "white", served |-> "white"]
                   ELSE tool_response'.status = "no_analysis" ) ]_vars
  /\ [] ( inference \in InferenceFailures
            => ( tool_response.perspective # "black" /\ tool_response.served # "black" ) )

\* the inference raised on a fresh frame and the call is answered with the white
\* entry of an analysis that has a black one too
C29_Witness ==
  /\ tool_pc = "sending"
  /\ inference = "raised"
  /\ current_analysis # NoneRec
  /\ current_analysis.perspectives = { "white", "black" }
  /\ tool_response = [status |-> "analysis_ready", perspective |-> "white",
                      served |-> "white"]

\* a step in which a call of analyze_new_position returns at once
SubmitDropped ==
  \E i \in 1..Len(tasks) : tasks[i].pc = "created" /\ tasks' = Remove(tasks, i)

\* C30: a call of analyze_new_position that returns at once because the flag is
\* up leaves the flag up and the analysis in flight as it is; the flag goes down
\* only in a step in which the analysis in flight ends; so the flag is up
\* exactly while one analysis is in flight and never two are.
C30_DroppedSubmitKeepsFlag ==
  /\ [][ SubmitDropped
           => ( /\ analyzing /\ analyzing'
                /\ Cardinality(Running(tasks)) = 1
                /\ Cardinality(Running(tasks')) = 1
                /\ current_analysis' = current_analysis ) ]_vars
  /\ [][ ( analyzing /\ ~analyzing' ) => AnalysisEnds ]_vars
  /\ [] ( Cardinality(Running(tasks)) <= 1 )
  /\ [] ( analyzing <=> Running(tasks) # { } )

\* a call returned at once while the analysis of the other position was in
\* flight, and that analysis is still the only one
C30_Witness ==
  /\ last_exit = "dropped"
  /\ analyzing
  /\ tasks = << [pc |-> "analyzing", fen |-> FenStart] >>

\* C31: an analysis is submitted for the position current_board has just been
\* set to; a task keeps the position it was submitted for; and a result is
\* stored only as the result for the position of the task that awaited the
\* analyzer. So the stored result is always for a position that was the board
\* when its analysis was submitted.
C31_StoredAnalysisIsOfSubmittedBoard ==
  /\ [][ TaskSubmitted
           => ( /\ current_board' \in ValidFens
                /\ tasks' = Append(tasks, [pc |-> "created", fen |-> current_board']) ) ]_vars
  /\ [] ( \A i \in Created(tasks) : tasks[i].fen = current_board )
  /\ [][ Len(tasks') = Len(tasks)
           => \A i \in 1..Len(tasks) : tasks'[i].fen = tasks[i].fen ]_vars
  /\ [][ current_analysis' # current_analysis
           => \E i \in 1..Len(tasks) :
                /\ tasks[i].pc = "analyzing"
                /\ current_analysis'.fen = tasks[i].fen ]_vars
  /\ [] ( current_analysis # NoneRec => current_analysis.fen \in ValidFens )

\* the result for the position after e4 is stored; it was the board when the
\* analysis was submitted, and the board has gone back to the start since
C31_Witness ==
  /\ current_analysis # NoneRec
  /\ current_analysis.fen = FenE4
  /\ current_board = FenStart
  /\ last_exit = "stored"
  /\ tasks = << >>

\* C32: the list handed to the analyzer in flight never holds more than 10
\* lines.
C32_ContextAtMostTen ==
  commentary_context # NoneRec => Len(commentary_context.lines) <= BufferCapacity

\* C33: an analysis_ready response reports the perspective of the entry it
\* serves.
C33_ReportedPerspectiveIsServed ==
  tool_response.status = "analysis_ready"
    => tool_response.perspective = tool_response.served
====
